---- MODULE Spec2Model ----
(***************************************************************************)
(* Model of the maze-runner program: the Maze class of src/basic/maze.py   *)
(* (breadth-first shortest_path) and of src/extension/maze.py (A*          *)
(* shortest_path), and the runner functions of src/extension/runner.py.    *)
(*                                                                         *)
(* A cell is <<x, y>>.  A runner is [x, y, orientation].  A function that  *)
(* may raise returns [raised |-> TRUE] or [raised |-> FALSE, val |-> v].   *)
(***************************************************************************)
EXTENDS Integers, Sequences, FiniteSets, TLC

VARIABLES width, height, horizontal_walls, vertical_walls, call, run, search

vars == <<width, height, horizontal_walls, vertical_walls, call, run, search>>

\* ---------------------------------------------------------------- bounds
MaxWidth == 3
MaxHeight == 3
MaxWalls == 1

\* the mazes explore is run on, and the moves of one run that are followed
ExploreWidth == 3
ExploreHeight == 2
MaxMoves == 24

\* the mazes shortest_path is followed on step by step
SearchWidth == 3
SearchHeight == 3

\* ------------------------------------------------------------- constants
orientations == <<"N", "E", "S", "W">>

Orientation == {"N", "E", "S", "W"}

\* The direction strings a caller passes to a turn; "Back" stands for any
\* string other than "Left" and "Right".
Directions == {"Left", "Right", "Back"}

Raise == [raised |-> TRUE]

Return(v) == [raised |-> FALSE, val |-> v]

Abs(n) == IF n < 0 THEN -n ELSE n

\* list.index(value) for a value that is in the list
IndexOf(o) == CHOOSE i \in 0..3 : orientations[i + 1] = o

Cells(w, h) == {<<x, y>> : x \in 0..(w - 1), y \in 0..(h - 1)}

create_runner(x, y, orientation) == [x |-> x, y |-> y, orientation |-> orientation]

\* ------------------------------------------------------------------ Maze
\* get_walls: (north, east, south, west) of the cell (x, y) of a maze m
\* get_walls with the west wall looked up under the east wall's entry
get_walls_west_as_east(m, x, y) ==
    LET north == (y = m.height - 1) \/ (<<x, y + 1>> \in m.hw)
        south == (y = 0) \/ (<<x, y>> \in m.hw)
        east  == (x = m.width - 1) \/ (<<y, x + 1>> \in m.vw)
        west  == (x = 0) \/ (<<y, x + 1>> \in m.vw)
    IN  <<north, east, south, west>>

\* get_walls with the vertical entries looked up as (x, y) instead of (y, x)
get_walls_xy_swapped(m, x, y) ==
    LET north == (y = m.height - 1) \/ (<<x, y + 1>> \in m.hw)
        south == (y = 0) \/ (<<x, y>> \in m.hw)
        east  == (x = m.width - 1) \/ (<<x + 1, y>> \in m.vw)
        west  == (x = 0) \/ (<<x, y>> \in m.vw)
    IN  <<north, east, south, west>>

\* get_walls with the north boundary one row too high
get_walls_north_off_by_one(m, x, y) ==
    LET north == (y = m.height) \/ (<<x, y + 1>> \in m.hw)
        south == (y = 0) \/ (<<x, y>> \in m.hw)
        east  == (x = m.width - 1) \/ (<<y, x + 1>> \in m.vw)
        west  == (x = 0) \/ (<<y, x>> \in m.vw)
    IN  <<north, east, south, west>>

get_walls(m, x, y) ==
    LET north == (y = m.height - 1) \/ (<<x, y + 1>> \in m.hw)
        south == (y = 0) \/ (<<x, y>> \in m.hw)
        east  == (x = m.width - 1) \/ (<<y, x + 1>> \in m.vw)
        west  == (x = 0) \/ (<<y, x>> \in m.vw)
    IN  <<north, east, south, west>>

\* side_map with left and right exchanged for a runner that faces south
side_map_south_mirrored(orient) ==
    CASE orient = "N" -> <<4, 1, 2>>
      [] orient = "E" -> <<1, 2, 3>>
      [] orient = "S" -> <<4, 3, 2>>
      [] orient = "W" -> <<3, 4, 1>>

\* side_map of sense_walls, as 1-based indices into the result of get_walls
side_map(orient) ==
    CASE orient = "N" -> <<4, 1, 2>>
      [] orient = "E" -> <<1, 2, 3>>
      [] orient = "S" -> <<2, 3, 4>>
      [] orient = "W" -> <<3, 4, 1>>

\* sense_walls: (left, front, right) walls relative to the runner
sense_walls(m, runner) ==
    LET walls == get_walls(m, runner.x, runner.y)
        idx   == side_map(runner.orientation)
    IN  <<walls[idx[1]], walls[idx[2]], walls[idx[3]]>>

\* the x/y update of go_straight and runner.forward
StepX(x, orient) == IF orient = "E" THEN x + 1 ELSE IF orient = "W" THEN x - 1 ELSE x

StepY(y, orient) == IF orient = "N" THEN y + 1 ELSE IF orient = "S" THEN y - 1 ELSE y

\* a forward step that advances two cells
go_straight_two_cells(m, runner) ==
    IF sense_walls(m, runner)[2]
    THEN Raise
    ELSE Return([x |-> StepX(StepX(runner.x, runner.orientation), runner.orientation),
                 y |-> StepY(StepY(runner.y, runner.orientation), runner.orientation),
                 orientation |-> runner.orientation])

go_straight(m, runner) ==
    IF sense_walls(m, runner)[2]
    THEN Raise
    ELSE Return([x |-> StepX(runner.x, runner.orientation),
                 y |-> StepY(runner.y, runner.orientation),
                 orientation |-> runner.orientation])

\* a turn whose Left is an about-face
Maze_turn_left_about_face(runner, direction) ==
    LET idx == IndexOf(runner.orientation)
    IN  IF direction = "Left"
        THEN Return([x |-> runner.x, y |-> runner.y,
                     orientation |-> orientations[((idx + 2) % 4) + 1]])
        ELSE IF direction = "Right"
        THEN Return([x |-> runner.x, y |-> runner.y,
                     orientation |-> orientations[((idx + 1) % 4) + 1]])
        ELSE Raise

\* a turn with Left and Right exchanged
Maze_turn_swapped(runner, direction) ==
    LET idx == IndexOf(runner.orientation)
    IN  IF direction = "Left"
        THEN Return([x |-> runner.x, y |-> runner.y,
                     orientation |-> orientations[((idx + 1) % 4) + 1]])
        ELSE IF direction = "Right"
        THEN Return([x |-> runner.x, y |-> runner.y,
                     orientation |-> orientations[((idx - 1) % 4) + 1]])
        ELSE Raise

\* Maze._turn
Maze_turn(runner, direction) ==
    LET idx == IndexOf(runner.orientation)
    IN  IF direction = "Left"
        THEN Return([x |-> runner.x, y |-> runner.y,
                     orientation |-> orientations[((idx - 1) % 4) + 1]])
        ELSE IF direction = "Right"
        THEN Return([x |-> runner.x, y |-> runner.y,
                     orientation |-> orientations[((idx + 1) % 4) + 1]])
        ELSE Raise

\* runner.turn
runner_turn(runner, direction) ==
    LET current == runner.orientation
        idx == IndexOf(current)
        new_orientation ==
            IF direction = "Left" THEN orientations[((idx - 1) % 4) + 1]
            ELSE IF direction = "Right" THEN orientations[((idx + 1) % 4) + 1]
            ELSE current
    IN  Return([x |-> runner.x, y |-> runner.y, orientation |-> new_orientation])

\* runner.forward
deltas(orientation) ==
    CASE orientation = "N" -> <<0, 1>>
      [] orientation = "E" -> <<1, 0>>
      [] orientation = "S" -> <<0, -1>>
      [] orientation = "W" -> <<-1, 0>>

runner_forward(runner) ==
    LET d == deltas(runner.orientation)
    IN  Return([x |-> runner.x + d[1], y |-> runner.y + d[2],
                orientation |-> runner.orientation])

opposite(orient) ==
    CASE orient = "N" -> "S"
      [] orient = "S" -> "N"
      [] orient = "E" -> "W"
      [] orient = "W" -> "E"

\* a backward step that keeps the orientation
step_backward_keeps_orientation(runner) ==
    LET orient == runner.orientation
        x == IF orient = "E" THEN runner.x - 1
             ELSE IF orient = "W" THEN runner.x + 1 ELSE runner.x
        y == IF orient = "N" THEN runner.y - 1
             ELSE IF orient = "S" THEN runner.y + 1 ELSE runner.y
    IN  [x |-> x, y |-> y, orientation |-> orient]

\* a backward step that moves the way the runner faces
step_backward_moves_forward(runner) ==
    LET orient == runner.orientation
        x == IF orient = "E" THEN runner.x + 1
             ELSE IF orient = "W" THEN runner.x - 1 ELSE runner.x
        y == IF orient = "N" THEN runner.y + 1
             ELSE IF orient = "S" THEN runner.y - 1 ELSE runner.y
    IN  [x |-> x, y |-> y, orientation |-> opposite(orient)]

\* the backward branch of move
step_backward(runner) ==
    LET orient == runner.orientation
        x == IF orient = "E" THEN runner.x - 1
             ELSE IF orient = "W" THEN runner.x + 1 ELSE runner.x
        y == IF orient = "N" THEN runner.y - 1
             ELSE IF orient = "S" THEN runner.y + 1 ELSE runner.y
    IN  [x |-> x, y |-> y, orientation |-> opposite(orient)]

\* an exception raised by a callee propagates out of move
Pair(res, action) ==
    IF res.raised THEN Raise ELSE Return([runner |-> res.val, action |-> action])

\* a move that refuses the backward step when there is a wall behind
move_checks_rear(m, runner) ==
    LET s == sense_walls(m, runner)
        rear_wall == sense_walls(m, [runner EXCEPT !.orientation = opposite(@)])[2]
    IN  IF ~s[1]
        THEN Pair(go_straight(m, Maze_turn(runner, "Left").val), "LF")
        ELSE IF ~s[2]
        THEN Pair(go_straight(m, runner), "F")
        ELSE IF ~s[3]
        THEN Pair(go_straight(m, Maze_turn(runner, "Right").val), "RF")
        ELSE IF rear_wall
        THEN Raise
        ELSE Return([runner |-> step_backward(runner), action |-> "B"])

\* move: (new runner, action)
move(m, runner) ==
    LET s == sense_walls(m, runner)
        left_wall == s[1]
        front_wall == s[2]
        right_wall == s[3]
    IN  IF ~left_wall
        THEN Pair(go_straight(m, Maze_turn(runner, "Left").val), "LF")
        ELSE IF ~front_wall
        THEN Pair(go_straight(m, runner), "F")
        ELSE IF ~right_wall
        THEN Pair(go_straight(m, Maze_turn(runner, "Right").val), "RF")
        ELSE Return([runner |-> step_backward(runner), action |-> "B"])

\* ------------------------------------------------- neighbour enumeration
\* the bound-checked enumeration without the test of the east wall
basic_get_neighbours_no_east_wall(m, x, y) ==
    LET w == get_walls(m, x, y)
    IN  (IF ~w[1] /\ y + 1 < m.height THEN <<<<x, y + 1>>>> ELSE <<>>)
        \o (IF x + 1 < m.width THEN <<<<x + 1, y>>>> ELSE <<>>)
        \o (IF ~w[3] /\ y - 1 >= 0 THEN <<<<x, y - 1>>>> ELSE <<>>)
        \o (IF ~w[4] /\ x - 1 >= 0 THEN <<<<x - 1, y>>>> ELSE <<>>)

\* _get_neighbours of src/basic/maze.py: bound-checked
basic_get_neighbours(m, x, y) ==
    LET w == get_walls(m, x, y)
    IN  (IF ~w[1] /\ y + 1 < m.height THEN <<<<x, y + 1>>>> ELSE <<>>)
        \o (IF ~w[2] /\ x + 1 < m.width THEN <<<<x + 1, y>>>> ELSE <<>>)
        \o (IF ~w[3] /\ y - 1 >= 0 THEN <<<<x, y - 1>>>> ELSE <<>>)
        \o (IF ~w[4] /\ x - 1 >= 0 THEN <<<<x - 1, y>>>> ELSE <<>>)

\* _get_neighbours of src/extension/maze.py: trusts the boundary walls
ext_get_neighbours(m, x, y) ==
    LET w == get_walls(m, x, y)
    IN  (IF ~w[1] THEN <<<<x, y + 1>>>> ELSE <<>>)
        \o (IF ~w[2] THEN <<<<x + 1, y>>>> ELSE <<>>)
        \o (IF ~w[3] THEN <<<<x, y - 1>>>> ELSE <<>>)
        \o (IF ~w[4] THEN <<<<x - 1, y>>>> ELSE <<>>)

\* ------------------------------------------------------ path reconstruction
Reverse(s) == [i \in 1..Len(s) |-> s[Len(s) + 1 - i]]

RECURSIVE walk_back(_, _, _, _)
\* while node != start: path.append(node); node = parent[node]
walk_back(parent, start, node, path) ==
    IF node = start
    THEN path
    ELSE walk_back(parent, start, parent[node], Append(path, node))

\* the path as walked, goal first: path.reverse() left out
reconstruct_not_reversed(parent, start, target) ==
    Append(walk_back(parent, start, target, <<>>), start)

reconstruct(parent, start, target) ==
    Reverse(Append(walk_back(parent, start, target, <<>>), start))

\* ------------------------------------------- shortest_path, breadth-first
\* state of the search loop of src/basic/maze.py
bfs_init(start) ==
    [queue |-> <<start>>, visited |-> {start}, parent |-> <<>>, found |-> FALSE]

\* a visit that records the latest predecessor of a cell already visited
bfs_visit_overwrites_parent(st, current, neighbour) ==
    IF neighbour \notin st.visited
    THEN [st EXCEPT !.visited = @ \cup {neighbour},
                    !.parent = (neighbour :> current) @@ @,
                    !.queue = Append(@, neighbour)]
    ELSE [st EXCEPT !.parent = (neighbour :> current) @@ @]

\* one pass of the body of "for nx, ny in self._get_neighbours(cx, cy)"
bfs_visit(st, current, neighbour) ==
    IF neighbour \notin st.visited
    THEN [st EXCEPT !.visited = @ \cup {neighbour},
                    !.parent = (neighbour :> current) @@ @,
                    !.queue = Append(@, neighbour)]
    ELSE st

RECURSIVE bfs_for(_, _, _, _)
bfs_for(st, current, nbs, i) ==
    IF i > Len(nbs) THEN st
    ELSE bfs_for(bfs_visit(st, current, nbs[i]), current, nbs, i + 1)

\* "while queue" taking the newest cell, queue.pop(), instead of the oldest
bfs_step_pop_newest(m, target, st) ==
    LET current == st.queue[Len(st.queue)]
        popped == [st EXCEPT !.queue = SubSeq(@, 1, Len(@) - 1)]
    IN  IF current = target
        THEN [popped EXCEPT !.found = TRUE]
        ELSE bfs_for(popped, current,
                     basic_get_neighbours(m, current[1], current[2]), 1)

\* one iteration of "while queue"
bfs_step(m, target, st) ==
    LET current == Head(st.queue)
        popped == [st EXCEPT !.queue = Tail(@)]
    IN  IF current = target
        THEN [popped EXCEPT !.found = TRUE]
        ELSE bfs_for(popped, current,
                     basic_get_neighbours(m, current[1], current[2]), 1)

bfs_running(st) == ~st.found /\ st.queue # <<>>

RECURSIVE bfs_loop(_, _, _)
bfs_loop(m, target, st) ==
    IF bfs_running(st) THEN bfs_loop(m, target, bfs_step(m, target, st)) ELSE st

basic_shortest_path(m, start, target) ==
    LET st == bfs_loop(m, target, bfs_init(start))
    IN  IF ~st.found THEN <<>> ELSE reconstruct(st.parent, start, target)

\* ---------------------------------------------------- shortest_path, A*
\* Manhattan distance heuristic
h(a, b) == Abs(a[1] - b[1]) + Abs(a[2] - b[2])

\* Python's order on the heap entries (f_cost, (x, y))
EntryLeq(a, b) ==
    \/ a[1] < b[1]
    \/ a[1] = b[1] /\ a[2][1] < b[2][1]
    \/ a[1] = b[1] /\ a[2][1] = b[2][1] /\ a[2][2] <= b[2][2]

\* the open set used as a stack: the entry pushed last is popped
NewestIndex(open_set) == Len(open_set)

\* heapq.heappop removes the smallest entry of the heap
MinIndex(open_set) ==
    CHOOSE i \in 1..Len(open_set) :
        \A j \in 1..Len(open_set) : EntryLeq(open_set[i], open_set[j])

RemoveAt(s, i) == [j \in 1..(Len(s) - 1) |-> IF j < i THEN s[j] ELSE s[j + 1]]

\* state of the search loop of src/extension/maze.py
astar_init(start) ==
    [open_set |-> <<<<0, start>>>>, g_cost |-> (start :> 0), parent |-> <<>>,
     stopped |-> FALSE]

\* a relaxation that also takes a route of equal length
astar_relax_not_strict(st, current, neighbour, target) ==
    LET tentative_g == st.g_cost[current] + 1
    IN  IF neighbour \notin DOMAIN st.g_cost \/ tentative_g <= st.g_cost[neighbour]
        THEN [st EXCEPT !.g_cost = (neighbour :> tentative_g) @@ @,
                        !.parent = (neighbour :> current) @@ @,
                        !.open_set = Append(@, <<tentative_g + h(neighbour, target),
                                                 neighbour>>)]
        ELSE st

\* one pass of the body of "for nx, ny in self._get_neighbours(cx, cy)"
astar_relax(st, current, neighbour, target) ==
    LET tentative_g == st.g_cost[current] + 1
    IN  IF neighbour \notin DOMAIN st.g_cost \/ tentative_g < st.g_cost[neighbour]
        THEN [st EXCEPT !.g_cost = (neighbour :> tentative_g) @@ @,
                        !.parent = (neighbour :> current) @@ @,
                        !.open_set = Append(@, <<tentative_g + h(neighbour, target),
                                                 neighbour>>)]
        ELSE st

RECURSIVE astar_for(_, _, _, _, _)
astar_for(st, current, nbs, i, target) ==
    IF i > Len(nbs) THEN st
    ELSE astar_for(astar_relax(st, current, nbs[i], target), current, nbs, i + 1, target)

\* one iteration of "while open_set"
astar_step(m, target, st) ==
    LET k == MinIndex(st.open_set)
        current == st.open_set[k][2]
        popped == [st EXCEPT !.open_set = RemoveAt(@, k)]
    IN  IF current = target
        THEN [popped EXCEPT !.stopped = TRUE]
        ELSE astar_for(popped, current,
                       ext_get_neighbours(m, current[1], current[2]), 1, target)

astar_running(st) == ~st.stopped /\ st.open_set # <<>>

RECURSIVE astar_loop(_, _, _)
astar_loop(m, target, st) ==
    IF astar_running(st) THEN astar_loop(m, target, astar_step(m, target, st)) ELSE st

ext_shortest_path(m, start, target) ==
    LET st == astar_loop(m, target, astar_init(start))
    IN  IF target \notin DOMAIN st.g_cost
        THEN <<>>
        ELSE reconstruct(st.parent, start, target)

\* ---------------------------------------------------------- state machine
\* the Maze object, as the operators above read it
maze == [width |-> width, height |-> height,
         hw |-> horizontal_walls, vw |-> vertical_walls]

\* "none": the caller holds no result; otherwise the last call and its result
NoCall == [op |-> "none"]

\* no call of explore is in progress
NoRun == [pc |-> "idle"]

\* no call of shortest_path is being followed step by step
NoSearch == [pc |-> "idle"]

\* the runners a caller creates with create_runner: in-range, facing N/E/S/W
Runners ==
    {create_runner(c[1], c[2], o) : c \in Cells(width, height), o \in Orientation}

\* Maze(width, height)
Init ==
    /\ width \in 1..MaxWidth
    /\ height \in 1..MaxHeight
    /\ horizontal_walls = {}
    /\ vertical_walls = {}
    /\ call = NoCall
    /\ run = NoRun
    /\ search = NoSearch

Idle == call.op = "none"

MayAddWall == Cardinality(horizontal_walls) + Cardinality(vertical_walls) < MaxWalls

add_horizontal_wall(x_cordinates, horizontal_line) ==
    /\ Idle
    /\ MayAddWall
    /\ horizontal_walls' = horizontal_walls \cup {<<x_cordinates, horizontal_line>>}
    /\ UNCHANGED <<width, height, vertical_walls, call, run, search>>

add_vertical_wall(y_cordiates, vertical_line) ==
    /\ Idle
    /\ MayAddWall
    /\ vertical_walls' = vertical_walls \cup {<<y_cordiates, vertical_line>>}
    /\ UNCHANGED <<width, height, horizontal_walls, call, run, search>>

AddHorizontalWall ==
    \E x \in 0..(width - 1), line \in 0..height : add_horizontal_wall(x, line)

AddVerticalWall ==
    \E y \in 0..(height - 1), line \in 0..width : add_vertical_wall(y, line)

\* a get_walls that stores an entry for the cell it is asked about
GetWalls_storing_wall ==
    /\ Idle
    /\ \E c \in Cells(width, height) :
          /\ call' = [op |-> "get_walls", x |-> c[1], y |-> c[2],
                      ret |-> get_walls(maze, c[1], c[2])]
          /\ horizontal_walls' = horizontal_walls \cup {<<c[1], c[2]>>}
    /\ UNCHANGED <<width, height, vertical_walls, run, search>>

GetWalls ==
    /\ Idle
    /\ \E c \in Cells(width, height) :
          call' = [op |-> "get_walls", x |-> c[1], y |-> c[2],
                   ret |-> get_walls(maze, c[1], c[2])]
    /\ UNCHANGED <<width, height, horizontal_walls, vertical_walls, run, search>>

GetNeighbours ==
    /\ Idle
    /\ \E c \in Cells(width, height) :
          call' = [op |-> "_get_neighbours", x |-> c[1], y |-> c[2],
                   basic |-> basic_get_neighbours(maze, c[1], c[2]),
                   ext |-> ext_get_neighbours(maze, c[1], c[2])]
    /\ UNCHANGED <<width, height, horizontal_walls, vertical_walls, run, search>>

ShortestPath ==
    /\ Idle
    /\ \E start \in Cells(width, height), goal \in Cells(width, height) :
          call' = [op |-> "shortest_path", start |-> start, goal |-> goal,
                   bfs |-> basic_shortest_path(maze, start, goal),
                   astar |-> ext_shortest_path(maze, start, goal)]
    /\ UNCHANGED <<width, height, horizontal_walls, vertical_walls, run, search>>

MazeTurn ==
    /\ Idle
    /\ \E r \in Runners, d \in Directions :
          call' = [op |-> "Maze._turn", runner |-> r, direction |-> d,
                   ret |-> Maze_turn(r, d)]
    /\ UNCHANGED <<width, height, horizontal_walls, vertical_walls, run, search>>

RunnerTurn ==
    /\ Idle
    /\ \E r \in Runners, d \in Directions :
          call' = [op |-> "runner.turn", runner |-> r, direction |-> d,
                   ret |-> runner_turn(r, d)]
    /\ UNCHANGED <<width, height, horizontal_walls, vertical_walls, run, search>>

GoStraight ==
    /\ Idle
    /\ \E r \in Runners :
          call' = [op |-> "go_straight", runner |-> r, ret |-> go_straight(maze, r)]
    /\ UNCHANGED <<width, height, horizontal_walls, vertical_walls, run, search>>

RunnerForward ==
    /\ Idle
    /\ \E r \in Runners :
          call' = [op |-> "runner.forward", runner |-> r, ret |-> runner_forward(r)]
    /\ UNCHANGED <<width, height, horizontal_walls, vertical_walls, run, search>>

Move ==
    /\ Idle
    /\ \E r \in Runners :
          call' = [op |-> "move", runner |-> r, ret |-> move(maze, r)]
    /\ UNCHANGED <<width, height, horizontal_walls, vertical_walls, run, search>>

\* the caller drops the result and goes on
Discard ==
    /\ ~Idle
    /\ call' = NoCall
    /\ UNCHANGED <<width, height, horizontal_walls, vertical_walls, run, search>>

Next ==
    \/ AddHorizontalWall
    \/ AddVerticalWall
    \/ GetWalls
    \/ GetNeighbours
    \/ ShortestPath
    \/ MazeTurn
    \/ RunnerTurn
    \/ GoStraight
    \/ RunnerForward
    \/ Move
    \/ Discard

Spec == Init /\ [][Next]_vars

\* ------------------------------------------------------------- explore
\* The frame of one call of explore: given is the caller's runner, runner
\* the local name the loop rebinds, goal and log the other locals.  seen
\* holds the runner states the loop has already moved from.
\* maze_reader adds wall entries between in-range cells only.
InternalHorizontal(maze_width, maze_height) ==
    {<<x, line>> : x \in 0..(maze_width - 1), line \in 1..(maze_height - 1)}

InternalVertical(maze_width, maze_height) ==
    {<<y, line>> : y \in 0..(maze_height - 1), line \in 1..(maze_width - 1)}

\* maze = Maze(maze_width, maze_height)
InitExplore ==
    /\ width \in 1..ExploreWidth
    /\ height \in 1..ExploreHeight
    /\ horizontal_walls = {}
    /\ vertical_walls = {}
    /\ call = NoCall
    /\ run = NoRun
    /\ search = NoSearch

NotExploring == run.pc = "idle"

\* maze_reader: maze.add_horizontal_wall(x, y + 1) for y < maze_height - 1
ReadHorizontalWall ==
    /\ NotExploring
    /\ \E e \in InternalHorizontal(width, height) : add_horizontal_wall(e[1], e[2])

\* maze_reader: maze.add_vertical_wall(y, x + 1) for x < maze_width - 1
ReadVerticalWall ==
    /\ NotExploring
    /\ \E e \in InternalVertical(width, height) : add_vertical_wall(e[1], e[2])

\* the optional goal argument: <<>> is None, <<c>> the cell c
GoalArguments == {<<>>} \cup {<<c>> : c \in Cells(width, height)}

\* explore(runner, goal): the code before the loop
explore_enter(runner, goal) ==
    [pc |-> "loop",
     given |-> runner,
     runner |-> runner,
     goal |-> IF goal = <<>> THEN <<width - 1, height - 1>> ELSE goal[1],
     log |-> <<>>,
     seen |-> {}]

\* the loop iteration that appends the position reached instead of the one left
explore_iterate_logs_after(m, f) ==
    IF <<f.runner.x, f.runner.y>> = f.goal
    THEN [f EXCEPT !.pc = "done"]
    ELSE LET res == move(m, f.runner)
         IN  IF res.raised
             THEN [f EXCEPT !.pc = "raised"]
             ELSE [f EXCEPT !.log = Append(@, <<res.val.runner.x, res.val.runner.y,
                                                res.val.action>>),
                            !.seen = @ \cup {f.runner},
                            !.runner = res.val.runner]

\* the loop iteration that updates the caller's runner in place
explore_iterate_in_place(m, f) ==
    IF <<f.runner.x, f.runner.y>> = f.goal
    THEN [f EXCEPT !.pc = "done"]
    ELSE LET res == move(m, f.runner)
         IN  IF res.raised
             THEN [f EXCEPT !.pc = "raised"]
             ELSE [f EXCEPT !.log = Append(@, <<f.runner.x, f.runner.y, res.val.action>>),
                            !.seen = @ \cup {f.runner},
                            !.given = res.val.runner,
                            !.runner = res.val.runner]

\* the loop iteration that forgets to rebind runner
explore_iterate_keeps_runner(m, f) ==
    IF <<f.runner.x, f.runner.y>> = f.goal
    THEN [f EXCEPT !.pc = "done"]
    ELSE LET res == move(m, f.runner)
         IN  IF res.raised
             THEN [f EXCEPT !.pc = "raised"]
             ELSE [f EXCEPT !.log = Append(@, <<f.runner.x, f.runner.y, res.val.action>>),
                            !.seen = @ \cup {f.runner}]

\* one test of "while (runner["x"], runner["y"]) != goal" and, when it
\* holds, one pass of the loop body
explore_iterate(m, f) ==
    IF <<f.runner.x, f.runner.y>> = f.goal
    THEN [f EXCEPT !.pc = "done"]
    ELSE LET res == move(m, f.runner)
         IN  IF res.raised
             THEN [f EXCEPT !.pc = "raised"]
             ELSE [f EXCEPT !.log = Append(@, <<f.runner.x, f.runner.y, res.val.action>>),
                            !.seen = @ \cup {f.runner},
                            !.runner = res.val.runner]

\* a run is followed until it returns, comes back to a runner state it has
\* already moved from, or has made MaxMoves moves
Followed(f) ==
    \/ <<f.runner.x, f.runner.y>> = f.goal
    \/ Len(f.log) < MaxMoves /\ f.runner \notin f.seen

Explore ==
    /\ Idle
    /\ NotExploring
    /\ \E r \in Runners, g \in GoalArguments : run' = explore_enter(r, g)
    /\ UNCHANGED <<width, height, horizontal_walls, vertical_walls, call, search>>

ExploreLoop ==
    /\ run.pc = "loop"
    /\ Followed(run)
    /\ run' = explore_iterate(maze, run)
    /\ UNCHANGED <<width, height, horizontal_walls, vertical_walls, call, search>>

\* explore has returned its log (or raised) and the caller goes on
ExploreReturn ==
    /\ run.pc \in {"done", "raised"}
    /\ run' = NoRun
    /\ UNCHANGED <<width, height, horizontal_walls, vertical_walls, call, search>>

NextExplore ==
    \/ ReadHorizontalWall
    \/ ReadVerticalWall
    \/ Explore
    \/ ExploreLoop
    \/ ExploreReturn
    \/ NotExploring /\ GetWalls
    \/ NotExploring /\ GetNeighbours
    \/ NotExploring /\ ShortestPath
    \/ NotExploring /\ MazeTurn
    \/ NotExploring /\ RunnerTurn
    \/ NotExploring /\ GoStraight
    \/ NotExploring /\ RunnerForward
    \/ NotExploring /\ Move
    \/ Discard

SpecExplore == InitExplore /\ [][NextExplore]_vars

\* ------------------------------------------- shortest_path, step by step
\* The frame of one call of shortest_path followed through its loop: start
\* and target are the locals of that name, st the other locals (bfs_init /
\* astar_init), popped the cells taken from the frontier so far, in order.
NotSearching == search.pc = "idle"

\* maze = Maze(maze_width, maze_height)
InitSearch ==
    /\ width \in 1..SearchWidth
    /\ height \in 1..SearchHeight
    /\ horizontal_walls = {}
    /\ vertical_walls = {}
    /\ call = NoCall
    /\ run = NoRun
    /\ search = NoSearch

\* src/extension/maze.py: the code before "while open_set"
AStarEnter ==
    /\ Idle
    /\ NotExploring
    /\ NotSearching
    /\ \E start \in Cells(width, height), goal \in Cells(width, height) :
          search' = [pc |-> "astar", start |-> start, target |-> goal,
                     st |-> astar_init(start), popped |-> <<>>]
    /\ UNCHANGED <<width, height, horizontal_walls, vertical_walls, call, run>>

\* one iteration of "while open_set"
AStarStep ==
    /\ search.pc = "astar"
    /\ astar_running(search.st)
    /\ search' = [search EXCEPT
                    !.st = astar_step(maze, search.target, search.st),
                    !.popped = Append(@, search.st.open_set[MinIndex(search.st.open_set)][2])]
    /\ UNCHANGED <<width, height, horizontal_walls, vertical_walls, call, run>>

\* src/basic/maze.py: the code before "while queue"
BfsEnter ==
    /\ Idle
    /\ NotExploring
    /\ NotSearching
    /\ \E start \in Cells(width, height), goal \in Cells(width, height) :
          search' = [pc |-> "bfs", start |-> start, target |-> goal,
                     st |-> bfs_init(start), popped |-> <<>>]
    /\ UNCHANGED <<width, height, horizontal_walls, vertical_walls, call, run>>

\* one iteration of "while queue"
BfsStep ==
    /\ search.pc = "bfs"
    /\ bfs_running(search.st)
    /\ search' = [search EXCEPT
                    !.st = bfs_step(maze, search.target, search.st),
                    !.popped = Append(@, Head(search.st.queue))]
    /\ UNCHANGED <<width, height, horizontal_walls, vertical_walls, call, run>>

\* the loop is over: the path is rebuilt and returned
SearchReturn ==
    /\ ~NotSearching
    /\ IF search.pc = "astar" THEN ~astar_running(search.st) ELSE ~bfs_running(search.st)
    /\ search' = NoSearch
    /\ UNCHANGED <<width, height, horizontal_walls, vertical_walls, call, run>>

NextSearch ==
    \/ NotSearching /\ ReadHorizontalWall
    \/ NotSearching /\ ReadVerticalWall
    \/ AStarEnter
    \/ AStarStep
    \/ BfsEnter
    \/ BfsStep
    \/ SearchReturn

SpecSearch == InitSearch /\ [][NextSearch]_vars

\* ===================================================================
\* Properties
\* ===================================================================
InRange(c) == c[1] \in 0..(width - 1) /\ c[2] \in 0..(height - 1)

\* the cell next to c in compass direction d
Toward(c, d) ==
    CASE d = "N" -> <<c[1], c[2] + 1>>
      [] d = "E" -> <<c[1] + 1, c[2]>>
      [] d = "S" -> <<c[1], c[2] - 1>>
      [] d = "W" -> <<c[1] - 1, c[2]>>

\* position of a compass direction in the tuple get_walls returns
WallIndex(d) == CASE d = "N" -> 1 [] d = "E" -> 2 [] d = "S" -> 3 [] d = "W" -> 4

\* get_walls reports a wall on the side of c that faces d
WallFacing(c, d) == get_walls(maze, c[1], c[2])[WallIndex(d)]

\* |dx| + |dy|
Manhattan(a, b) == Abs(a[1] - b[1]) + Abs(a[2] - b[2])

\* a wall-respecting move from a in compass direction d: the cell there is
\* in range and neither side reports a wall in between
OpenStep(a, d) ==
    /\ InRange(Toward(a, d))
    /\ ~WallFacing(a, d)
    /\ ~WallFacing(Toward(a, d), opposite(d))

\* a wall-respecting move between two cells
OpenMove(a, b) ==
    /\ InRange(a)
    /\ \E d \in Orientation : Toward(a, d) = b /\ OpenStep(a, d)

OpenNeighbours(a) == {Toward(a, d) : d \in {e \in Orientation : OpenStep(a, e)}}

RECURSIVE LayerDistance(_, _, _, _)
\* least number of wall-respecting moves from the cells of frontier (k moves
\* from the start) to goal, by layers; -1 when goal cannot be reached
LayerDistance(frontier, seen, goal, k) ==
    IF goal \in frontier THEN k
    ELSE IF frontier = {} THEN -1
    ELSE LET next == (UNION {OpenNeighbours(a) : a \in frontier}) \ seen
         IN  LayerDistance(next, seen \cup next, goal, k + 1)

MinMoves(start, goal) == LayerDistance({start}, {start}, goal, 0)

Reachable(start, goal) == MinMoves(start, goal) >= 0

\* no stored wall entry lies between two in-range cells
NoInternalWalls ==
    /\ \A e \in horizontal_walls :
          ~(e[1] \in 0..(width - 1) /\ e[2] \in 1..(height - 1))
    /\ \A e \in vertical_walls :
          ~(e[1] \in 0..(height - 1) /\ e[2] \in 1..(width - 1))

Searched == call.op = "shortest_path"

\* C1: whenever the goal is reachable, the BFS path and the A* path both have
\* exactly the minimum number of wall-respecting moves from start to goal as
\* their number of steps; with no internal walls that is |dx| + |dy| steps.
C1_PathIsShortest ==
    Searched =>
        LET least == MinMoves(call.start, call.goal)
        IN  least >= 0 =>
              /\ Len(call.bfs) - 1 = least
              /\ Len(call.astar) - 1 = least
              /\ NoInternalWalls =>
                    /\ Len(call.bfs) = Manhattan(call.start, call.goal) + 1
                    /\ Len(call.astar) = Manhattan(call.start, call.goal) + 1

\* a search whose shortest path is longer than the Manhattan distance
C1_Witness ==
    /\ Searched
    /\ Reachable(call.start, call.goal)
    /\ Len(call.bfs) - 1 > Manhattan(call.start, call.goal)
    /\ Len(call.astar) = Len(call.bfs)

\* C2: on the same maze, start and goal the BFS path and the A* path have
\* the same length, and one is empty exactly when the other is.
C2_SameLength ==
    Searched =>
        /\ Len(call.bfs) = Len(call.astar)
        /\ (call.bfs = <<>>) <=> (call.astar = <<>>)

\* the two searches return different paths of the same length
C2_Witness ==
    /\ Searched
    /\ call.bfs # call.astar
    /\ Len(call.bfs) = Len(call.astar)

\* C3: shortest_path returns the empty sequence exactly when the goal is not
\* reachable from the start, a non-empty one otherwise, and <<start>> when
\* start and goal are the same cell.
C3_EmptyIffUnreachable ==
    Searched =>
        LET reachable == Reachable(call.start, call.goal)
        IN  /\ (call.bfs = <<>>) <=> ~reachable
            /\ (call.astar = <<>>) <=> ~reachable
            /\ call.start = call.goal =>
                  (call.bfs = <<call.start>> /\ call.astar = <<call.start>>)

\* a vertical wall over the full height cuts column 0 off: both are empty
C3_Witness ==
    /\ Searched
    /\ \A y \in 0..(height - 1) : <<y, 1>> \in vertical_walls
    /\ call.start[1] = 0 /\ call.goal[1] > 0
    /\ call.bfs = <<>> /\ call.astar = <<>>

ValidWalk(path, start, goal) ==
    /\ path[1] = start
    /\ path[Len(path)] = goal
    /\ \A i \in 1..Len(path) : InRange(path[i])
    /\ \A i, j \in 1..Len(path) : i # j => path[i] # path[j]
    /\ \A i \in 1..(Len(path) - 1) : OpenMove(path[i], path[i + 1])

\* C4: a non-empty result of shortest_path starts at the start, ends at the
\* goal, stays inside the grid, repeats no cell, and each step goes to a
\* 4-adjacent cell with no wall in between.
C4_PathIsValidWalk ==
    Searched =>
        /\ call.bfs # <<>> => ValidWalk(call.bfs, call.start, call.goal)
        /\ call.astar # <<>> => ValidWalk(call.astar, call.start, call.goal)

\* a path that turns a corner in a maze that has an internal wall
C4_Witness ==
    /\ Searched
    /\ ~NoInternalWalls
    /\ Len(call.bfs) >= 4 /\ Len(call.astar) >= 4
    /\ call.start[1] # call.goal[1]
    /\ call.start[2] # call.goal[2]

\* e occurs in the sequence s
InSeq(e, s) == \E i \in 1..Len(s) : s[i] = e

\* C5: walls are undirected.  After any sequence of wall insertions (the
\* states in which the caller holds no pending result), for in-range
\* 4-adjacent cells a and b, get_walls reports a wall on a's side facing b
\* iff it reports one on b's side facing a, and b is a neighbour of a iff a
\* is a neighbour of b; every stored
\* horizontal entry (x, line) is the north wall of (x, line - 1) and the
\* south wall of (x, line).
C5_WallsUndirected ==
    Idle =>
        /\ \A a \in Cells(width, height), d \in Orientation :
              LET b == Toward(a, d)
              IN  InRange(b) =>
                    /\ WallFacing(a, d) <=> WallFacing(b, opposite(d))
                    /\ InSeq(b, basic_get_neighbours(maze, a[1], a[2]))
                          <=> InSeq(a, basic_get_neighbours(maze, b[1], b[2]))
                    /\ InSeq(b, ext_get_neighbours(maze, a[1], a[2]))
                          <=> InSeq(a, ext_get_neighbours(maze, b[1], b[2]))
        /\ \A e \in horizontal_walls :
              /\ get_walls(maze, e[1], e[2] - 1)[1]
              /\ get_walls(maze, e[1], e[2])[3]

\* a horizontal wall has been added between two in-range cells, and both
\* report it
C5_Witness ==
    /\ Idle
    /\ \E e \in horizontal_walls :
          /\ e[2] \in 1..(height - 1)
          /\ WallFacing(<<e[1], e[2] - 1>>, "N")
          /\ WallFacing(<<e[1], e[2]>>, "S")

\* C6: each boolean of get_walls is true exactly when the cell is on the
\* boundary in that direction or the matching entry is stored; a cell off
\* the boundary with no matching entry has no wall, and a boundary cell's
\* outward wall is there whatever was added.
C6_GetWalls ==
    call.op = "get_walls" =>
        LET x == call.x
            y == call.y
            onN == y = height - 1
            onE == x = width - 1
            onS == y = 0
            onW == x = 0
            inN == <<x, y + 1>> \in horizontal_walls
            inS == <<x, y>> \in horizontal_walls
            inE == <<y, x + 1>> \in vertical_walls
            inW == <<y, x>> \in vertical_walls
        IN  /\ call.ret[1] <=> (onN \/ inN)
            /\ call.ret[2] <=> (onE \/ inE)
            /\ call.ret[3] <=> (onS \/ inS)
            /\ call.ret[4] <=> (onW \/ inW)
            /\ (~onN /\ ~onE /\ ~onS /\ ~onW /\ ~inN /\ ~inE /\ ~inS /\ ~inW)
                  => call.ret = <<FALSE, FALSE, FALSE, FALSE>>
            /\ onN => call.ret[1]
            /\ onE => call.ret[2]
            /\ onS => call.ret[3]
            /\ onW => call.ret[4]

\* get_walls of a cell off the boundary: one wall from a stored entry only
C6_Witness ==
    /\ call.op = "get_walls"
    /\ 0 < call.x /\ call.x < width - 1
    /\ 0 < call.y /\ call.y < height - 1
    /\ call.ret = <<FALSE, FALSE, FALSE, TRUE>>

\* C7: for an in-range cell the bound-checked and the unchecked neighbour
\* enumeration return the same cells, all inside the grid.
C7_NeighboursAgree ==
    call.op = "_get_neighbours" =>
        /\ call.basic = call.ext
        /\ \A i \in 1..Len(call.ext) : InRange(call.ext[i])
        /\ \A i \in 1..Len(call.basic) : InRange(call.basic[i])

\* neighbours of a corner cell that has an open side
C7_Witness ==
    /\ call.op = "_get_neighbours"
    /\ call.x = width - 1 /\ call.y = height - 1
    /\ call.ext # <<>>
    /\ Len(call.ext) < 2

\* C8: a turn with a direction other than Left or Right fails with an error,
\* for Maze._turn and for runner.turn.
C8_InvalidTurnFails ==
    (call.op \in {"Maze._turn", "runner.turn"} /\ call.direction \notin {"Left", "Right"})
        => call.ret.raised

\* C9: a forward step (Maze.go_straight, runner.forward) fails when the wall
\* in front of the runner is present, and otherwise moves the runner one cell
\* in the facing direction with the orientation unchanged.
C9_ForwardStep ==
    call.op \in {"go_straight", "runner.forward"} =>
        LET r == call.runner
            here == <<r.x, r.y>>
        IN  IF WallFacing(here, r.orientation)
            THEN call.ret.raised
            ELSE /\ ~call.ret.raised
                 /\ <<call.ret.val.x, call.ret.val.y>> = Toward(here, r.orientation)
                 /\ call.ret.val.orientation = r.orientation

\* turn-left and turn-right of a compass direction
LeftOf(d) == CASE d = "N" -> "W" [] d = "W" -> "S" [] d = "S" -> "E" [] d = "E" -> "N"

RightOf(d) == CASE d = "N" -> "E" [] d = "E" -> "S" [] d = "S" -> "W" [] d = "W" -> "N"

\* the runner after one step from cell c in direction d, facing f
Stepped(c, d, f) == [x |-> Toward(c, d)[1], y |-> Toward(c, d)[2], orientation |-> f]

\* C10: move follows the left-hand priority order LF, F, RF, B on the walls
\* in the directions turn-left(orientation), orientation and
\* turn-right(orientation); the action names the branch taken and the new
\* runner is that branch's.
C10_MovePriority ==
    call.op = "move" =>
        LET r == call.runner
            o == r.orientation
            here == <<r.x, r.y>>
            expected ==
                IF ~WallFacing(here, LeftOf(o))
                THEN [runner |-> Stepped(here, LeftOf(o), LeftOf(o)), action |-> "LF"]
                ELSE IF ~WallFacing(here, o)
                THEN [runner |-> Stepped(here, o, o), action |-> "F"]
                ELSE IF ~WallFacing(here, RightOf(o))
                THEN [runner |-> Stepped(here, RightOf(o), RightOf(o)), action |-> "RF"]
                ELSE [runner |-> Stepped(here, opposite(o), opposite(o)), action |-> "B"]
        IN  /\ ~call.ret.raised
            /\ call.ret.val = expected

\* left and front are walled and the right is open: the runner goes right
C10_Witness ==
    /\ call.op = "move"
    /\ ~call.ret.raised
    /\ call.ret.val.action = "RF"
    /\ call.runner.orientation = "S"
    /\ call.ret.val.runner.orientation = "W"

\* ---------------------------------------------------------------- C11
\* the runner after n moves of the left-hand rule from r (r itself when a
\* move fails)
RECURSIVE Replay(_, _, _)
Replay(m, r, n) ==
    IF n = 0
    THEN r
    ELSE LET res == move(m, r)
         IN  IF res.raised THEN r ELSE Replay(m, res.val.runner, n - 1)

Actions == {"LF", "F", "RF", "B"}

\* C11: when explore returns, the log has one entry per move made: entry i
\* holds the position the runner had before move i and the action of that
\* move (entry 0 the initial position, every later entry the position the
\* previous move reached), every action is one of LF, F, RF, B, the last
\* move reaches the goal, no entry has the goal's coordinates, and the log
\* is empty if the initial position is the goal.
C11_ExploreLog ==
    run.pc = "done" =>
        LET n == Len(run.log)
            before(i) == Replay(maze, run.given, i - 1)
        IN  /\ run.runner = Replay(maze, run.given, n)
            /\ \A i \in 1..n :
                /\ ~move(maze, before(i)).raised
                /\ run.log[i] = <<before(i).x, before(i).y,
                                  move(maze, before(i)).val.action>>
                /\ run.log[i][3] \in Actions
                /\ <<run.log[i][1], run.log[i][2]>> # run.goal
            /\ <<run.runner.x, run.runner.y>> = run.goal
            /\ <<run.given.x, run.given.y>> = run.goal => run.log = <<>>

\* explore has returned a log of several moves, one of them backward
C11_Witness ==
    /\ run.pc = "done"
    /\ Len(run.log) >= 3
    /\ \E i \in 1..Len(run.log) : run.log[i][3] = "B"

\* ---------------------------------------------------------------- C12
\* every cell can be reached from every other by wall-respecting moves
AllConnected == \A c \in Cells(width, height) : Reachable(<<0, 0>>, c)

\* the open passages between adjacent cells, each counted once
OpenPassages ==
    {p \in Cells(width, height) \X {"N", "E"} : OpenStep(p[1], p[2])}

\* a single-solution maze: the open passages form a spanning tree of the cells
SingleSolution ==
    /\ Cardinality(OpenPassages) = width * height - 1
    /\ AllConnected

\* explore is in its loop, away from the goal, with a runner state it has
\* already moved from (move is a function of the runner and the fixed maze,
\* so the run repeats for ever) or with MaxMoves moves made
CutShort == run.pc = "loop" /\ ~Followed(run)

\* C12 (as stated): on every maze in which all cells are connected, from
\* every start and orientation and to every goal, explore neither fails nor
\* runs for ever.
C12_ConnectedTerminates ==
    /\ run.pc = "raised" => ~AllConnected
    /\ CutShort => ~AllConnected

\* C12 (amended): on every single-solution maze (connected, with exactly
\* width*height - 1 open passages), from every start and orientation and to
\* every goal, explore never fails and never comes back to a runner state it
\* has moved from, so it returns after finitely many moves, on the goal.
C12_SingleSolutionTerminates ==
    /\ run.pc = "raised" => ~SingleSolution
    /\ CutShort => ~SingleSolution
    /\ run.pc = "done" => <<run.runner.x, run.runner.y>> = run.goal

\* explore has returned from a walk of a single-solution maze that took a bend
C12_Witness ==
    /\ run.pc = "done"
    /\ Len(run.log) >= 3
    /\ width > 1
    /\ height > 1
    /\ SingleSolution

\* ---------------------------------------------------------------- C13
\* a single-path corridor: a single-solution maze of at least two cells in
\* which no cell has more than two open neighbours
Corridor ==
    /\ width * height >= 2
    /\ \A c \in Cells(width, height) : Cardinality(OpenNeighbours(c)) <= 2
    /\ SingleSolution

\* an end of the corridor
CorridorEnd(c) == Cardinality(OpenNeighbours(c)) = 1

\* explore has returned from a walk from one end of a corridor to the other
WalkedCorridor ==
    /\ run.pc = "done"
    /\ <<run.given.x, run.given.y>> # run.goal
    /\ Corridor
    /\ CorridorEnd(<<run.given.x, run.given.y>>)
    /\ CorridorEnd(run.goal)

AllForward(log) == \A i \in 1..Len(log) : log[i][3] = "F"

TurnOf(op, runner, direction) ==
    IF op = "Maze._turn" THEN Maze_turn(runner, direction)
    ELSE runner_turn(runner, direction)

RECURSIVE Turns(_, _, _, _)
\* n turns in the same direction
Turns(op, runner, direction, n) ==
    IF n = 0 THEN runner
    ELSE Turns(op, TurnOf(op, runner, direction).val, direction, n - 1)

Turned == call.op \in {"Maze._turn", "runner.turn"} /\ ~call.ret.raised

\* C14: for every runner state and both turn functions, a Left turn followed
\* by a Right turn (and a Right followed by a Left) gives back the original
\* orientation, four Left turns (and four Right turns) give back the
\* starting orientation, and every turn leaves x and y unchanged.
C14_TurnRoundTrip ==
    Turned =>
        LET r == call.runner
            d == call.direction
            t == call.ret.val
            back == IF d = "Left" THEN "Right" ELSE "Left"
        IN  /\ t.x = r.x
            /\ t.y = r.y
            /\ d \in {"Left", "Right"} =>
                  /\ t.orientation # r.orientation
                  /\ TurnOf(call.op, t, back).val = r
                  /\ Turns(call.op, r, d, 4) = r
                  /\ \A n \in 1..3 : Turns(call.op, r, d, n).orientation # r.orientation

\* a Left turn from N, which wraps around the orientation list to W
C14_Witness ==
    /\ Turned
    /\ call.op = "Maze._turn"
    /\ call.direction = "Left"
    /\ call.runner.orientation = "N"
    /\ call.ret.val.orientation = "W"

\* ---------------------------------------------------------------- C15
\* the pairs of opposite compass values
OppositePairs == {<<"N", "S">>, <<"S", "N">>, <<"E", "W">>, <<"W", "E">>}

RECURSIVE Backward(_, _)
\* n backward steps
Backward(runner, n) == IF n = 0 THEN runner ELSE Backward(step_backward(runner), n - 1)

SteppedForward == call.op \in {"go_straight", "runner.forward"} /\ ~call.ret.raised

\* C15: a forward step followed at once by a backward step brings the runner
\* back to its original position; every backward step turns the orientation
\* into the opposite compass value, so after the forward step one or three
\* backward steps leave the opposite orientation and two or four restore the
\* original.
C15_ForwardBackward ==
    SteppedForward =>
        LET r == call.runner
            f == call.ret.val
        IN  /\ <<f.x, f.y>> # <<r.x, r.y>>
            /\ Backward(f, 1).x = r.x
            /\ Backward(f, 1).y = r.y
            /\ \A n \in 1..4 :
                  LET o == Backward(f, n).orientation
                  IN  IF n % 2 = 0
                      THEN o = r.orientation
                      ELSE <<r.orientation, o>> \in OppositePairs

\* go_straight has moved a runner east across an open side
C15_Witness ==
    /\ SteppedForward
    /\ call.op = "go_straight"
    /\ call.runner.orientation = "E"
    /\ call.ret.val.x = call.runner.x + 1

\* ---------------------------------------------------------------- C16
\* a step of a query, of explore or of the caller dropping a result: every
\* step that is not a wall insertion
QueryStep == call' # call \/ run' # run

\* C16: get_walls, go_straight, move (and the sense_walls they call),
\* explore, _get_neighbours and shortest_path leave width, height and both
\* wall sets as they were, so explorations and searches that follow one
\* another on a maze see the same walls, and get_walls asked again about
\* the same cell with no wall inserted since returns the same four booleans.
C16_MazeFrame ==
    /\ [][QueryStep => /\ width' = width
                       /\ height' = height
                       /\ horizontal_walls' = horizontal_walls
                       /\ vertical_walls' = vertical_walls]_vars
    /\ [](call.op = "get_walls" => get_walls(maze, call.x, call.y) = call.ret)

\* get_walls has reported the wall maze_reader put east of a cell
C16_Witness ==
    /\ call.op = "get_walls"
    /\ call.x < width - 1
    /\ <<call.y, call.x + 1>> \in vertical_walls
    /\ call.ret[2]

\* ---------------------------------------------------------------- C17
\* the recorded calls that take a runner
RunnerOps == {"Maze._turn", "runner.turn", "go_straight", "runner.forward", "move"}

MovedFromDeadEnd ==
    /\ call.op = "move"
    /\ LET here == <<call.runner.x, call.runner.y>>
           o == call.runner.orientation
       IN  /\ WallFacing(here, LeftOf(o))
           /\ WallFacing(here, o)
           /\ WallFacing(here, RightOf(o))

\* C18: with left, front and right all blocked, move takes the backward
\* step whatever is behind the runner: it raises no error, the action is B,
\* the new position is the cell one step against the facing direction and
\* the new orientation is the opposite compass value, with or without a
\* wall (internal or boundary) behind.
C18_BackwardUnconditional ==
    MovedFromDeadEnd =>
        LET here == <<call.runner.x, call.runner.y>>
            o == call.runner.orientation
            back == CHOOSE d \in Orientation : <<o, d>> \in OppositePairs
        IN  /\ ~call.ret.raised
            /\ call.ret.val.action = "B"
            /\ <<call.ret.val.runner.x, call.ret.val.runner.y>> = Toward(here, back)
            /\ call.ret.val.runner.orientation = back

\* the backward step has taken the runner through the internal wall behind it
C18_Witness ==
    /\ MovedFromDeadEnd
    /\ WallFacing(<<call.runner.x, call.runner.y>>, opposite(call.runner.orientation))
    /\ ~call.ret.raised
    /\ InRange(<<call.ret.val.runner.x, call.ret.val.runner.y>>)

\* ---------------------------------------------------------------- C19
\* explore has made a move: the last log entry holds where it started and
\* the local runner where it ended
Explored == run.pc \in {"loop", "done"} /\ Len(run.log) > 0

LastFrom == <<run.log[Len(run.log)][1], run.log[Len(run.log)][2]>>

LastAction == run.log[Len(run.log)][3]

\* C19: on every maze of at least two cells in which all cells are
\* connected, from every in-range start and orientation, every move explore
\* makes goes between two in-range 4-adjacent cells with no wall between
\* them; in particular a backward move leaves through an open side and
\* ends facing away from the cell it left, so the runner never crosses a
\* wall and never leaves the grid.
C19_ExploreRespectsWalls ==
    Explored /\ width * height >= 2 =>
        LET to == <<run.runner.x, run.runner.y>>
            respected ==
                /\ InRange(to)
                /\ OpenMove(LastFrom, to)
                /\ LastAction = "B" => Toward(LastFrom, run.runner.orientation) = to
        IN  respected \/ ~AllConnected

\* explore has walked into a dead end of a connected maze and backed out
C19_Witness ==
    /\ Explored
    /\ Len(run.log) >= 2
    /\ LastAction = "B"
    /\ width * height >= 2
    /\ AllConnected
    /\ OpenMove(LastFrom, <<run.runner.x, run.runner.y>>)

\* ---------------------------------------------------------------- C20
\* the side sense_walls reports at position i is open and the forward step
\* move takes for it (after the turn it makes for that side) is not blocked
StepAgrees(runner, i) ==
    LET turned == IF i = 1 THEN Maze_turn(runner, "Left").val
                  ELSE IF i = 3 THEN Maze_turn(runner, "Right").val
                  ELSE runner
    IN  ~sense_walls(maze, runner)[i] =>
            /\ ~sense_walls(maze, turned)[2]
            /\ ~go_straight(maze, turned).raised

\* C20: for every in-range position, every orientation and every wall
\* configuration, move does not fail with the blocked-forward error:
\* whenever sense_walls reports left (front, right) open, the forward step
\* taken after turning left (not turning, turning right) finds no wall in
\* front, so sensing and turning agree on which compass direction is left,
\* front and right.
C20_MoveNeverBlocked ==
    call.op = "move" =>
        /\ ~call.ret.raised
        /\ \A i \in 1..3 : StepAgrees(call.runner, i)

\* the runner faces W with a wall in front, and move has gone left, to the
\* south
C20_Witness ==
    /\ call.op = "move"
    /\ call.runner.orientation = "W"
    /\ sense_walls(maze, call.runner)[2]
    /\ ~call.ret.raised
    /\ call.ret.val.action = "LF"
    /\ call.ret.val.runner.y = call.runner.y - 1

\* ---------------------------------------------------------------- C21
\* one iteration of the A* loop
AStarIteration == search.pc = "astar" /\ search'.pc = "astar"

\* the cells taken from the frontier so far
Settled(f) == {f.popped[i] : i \in 1..Len(f.popped)}

\* the cell the last iteration took from the frontier
LastPopped == search.popped[Len(search.popped)]

\* the record of cell c (g value, parent) is the same before and after
SameRecord(c) ==
    /\ c \in DOMAIN search.st.g_cost
    /\ search'.st.g_cost[c] = search.st.g_cost[c]
    /\ (c \in DOMAIN search'.st.parent) = (c \in DOMAIN search.st.parent)
    /\ c \in DOMAIN search.st.parent => search'.st.parent[c] = search.st.parent[c]

\* C21: in the A* search a cell's recorded g value and parent change only
\* when the cell is unseen or is reached with a strictly smaller g (then g
\* becomes the popped cell's g plus one and the parent the popped cell), so
\* g values never increase; a cell that has been popped from the frontier
\* has the least number of moves from the start as its g value and its
\* record is never changed afterwards; when the goal is popped its g is the
\* minimum path length.
C21_AStarCosts ==
    /\ [][AStarIteration =>
            LET g == search.st.g_cost
                current == search'.popped[Len(search'.popped)]
            IN  /\ DOMAIN g \subseteq DOMAIN search'.st.g_cost
                /\ \A c \in DOMAIN search'.st.g_cost :
                      \/ SameRecord(c)
                      \/ /\ c \notin Settled(search')
                         /\ c \in DOMAIN g => search'.st.g_cost[c] < g[c]
                         /\ search'.st.g_cost[c] = g[current] + 1
                         /\ search'.st.parent[c] = current]_vars
    /\ [](search.pc = "astar" /\ search.popped # <<>> =>
            /\ search.st.g_cost[LastPopped] = MinMoves(search.start, LastPopped)
            /\ search.st.stopped =>
                  /\ LastPopped = search.target
                  /\ search.st.g_cost[search.target]
                        = MinMoves(search.start, search.target))

\* a cell first seen at g = 4 has been reached again at g = 2 while it was
\* still in the frontier
C21_Witness ==
    /\ search.pc = "astar"
    /\ \E i, j \in 1..Len(search.st.open_set) :
          /\ i < j
          /\ search.st.open_set[i][2] = search.st.open_set[j][2]
          /\ search.st.open_set[j][1] < search.st.open_set[i][1]
          /\ search.st.open_set[j][2] \notin Settled(search)

\* ---------------------------------------------------------------- C22
\* one iteration of the BFS loop
BfsIteration == search.pc = "bfs" /\ search'.pc = "bfs"

\* every cell that has entered the queue, in the order of entry: the cells
\* taken from its front followed by the cells still in it
Enqueued(f) == f.popped \o f.st.queue

RECURSIVE Layers(_, _, _)
\* the least number of wall-respecting moves to every cell that can be
\* reached, by layers: dist holds the cells up to k moves away
Layers(frontier, dist, k) ==
    IF frontier = {} THEN dist
    ELSE LET next == (UNION {OpenNeighbours(a) : a \in frontier}) \ DOMAIN dist
         IN  Layers(next, [c \in next |-> k + 1] @@ dist, k + 1)

Distances(start) == Layers({start}, (start :> 0), 0)

NoRepeats(s) == \A i, j \in 1..Len(s) : s[i] = s[j] => i = j

\* C22: in the breadth-first search every cell enters the queue at most
\* once; a cell's parent entry is written when the cell is first discovered
\* (with the cell just dequeued as parent) and never written again; the
\* start has no parent; every recorded parent is a neighbour of its child
\* with no wall between them and, in the map the loop ends with (no entry
\* of which was written twice), exactly one move closer to the start.
C22_BfsParents ==
    /\ [](search.pc = "bfs" =>
            /\ NoRepeats(Enqueued(search))
            /\ search.st.visited = {Enqueued(search)[i] : i \in 1..Len(Enqueued(search))}
            /\ DOMAIN search.st.parent = search.st.visited \ {search.start})
    /\ [][BfsIteration =>
            LET parent == search.st.parent
                current == search'.popped[Len(search'.popped)]
            IN  /\ \A c \in DOMAIN parent : search'.st.parent[c] = parent[c]
                /\ \A c \in DOMAIN search'.st.parent \ DOMAIN parent :
                      /\ c \notin search.st.visited
                      /\ search'.st.parent[c] = current
                      /\ OpenMove(current, c)]_vars
    /\ [](search.pc = "bfs" /\ ~bfs_running(search.st) =>
            LET dist == Distances(search.start)
            IN  \A c \in DOMAIN search.st.parent :
                    /\ search.st.parent[c] \in DOMAIN dist
                    /\ c \in DOMAIN dist
                    /\ dist[c] = dist[search.st.parent[c]] + 1)

\* the cell just dequeued has met a neighbour that was discovered earlier
\* from another cell, and that neighbour has kept its first parent
C22_Witness ==
    /\ search.pc = "bfs"
    /\ search.popped # <<>>
    /\ \E c \in DOMAIN search.st.parent :
          /\ OpenMove(LastPopped, c)
          /\ search.st.parent[c] # LastPopped
          /\ LastPopped \in DOMAIN search.st.parent
          /\ search.st.parent[LastPopped] # c

\* ---------------------------------------------------------------- C23
\* twice the number of passages of a spanning tree of the cells
TourLength == 2 * (width * height - 1)

\* C23: on every maze whose open passages form a spanning tree of the cells,
\* for every in-range start, goal and initial orientation, explore does not
\* fail, is never cut short before the goal and never has more than
\* 2 * (width * height - 1) moves in its log, so it reaches the goal and
\* returns within that many moves.
C23_TreeMoveBound ==
    (run.pc = "raised" \/ CutShort \/ (run.pc # "idle" /\ Len(run.log) > TourLength))
        => ~SingleSolution

\* explore has returned after walking to the dead end behind the start
\* and back through the whole tree: one move less than the bound
C23_Witness ==
    /\ run.pc = "done"
    /\ width * height >= 4
    /\ Len(run.log) = TourLength - 1
    /\ SingleSolution

====
